---- MODULE Spec2Model ----
(***************************************************************************)
(* Model of scripts/extract_cv.py: the name-guessing heuristic             *)
(* guess_candidate_name and the command-line driver main.                  *)
(*                                                                         *)
(* A string is a sequence of one-character strings.  The Python string     *)
(* methods the program uses (splitlines, strip, split, lower, upper,       *)
(* isalpha, replace, "in", slicing, join) are operators computed the way   *)
(* Python computes them on the ASCII range.                                *)
(***************************************************************************)
EXTENDS Integers, Sequences, FiniteSets, TLC

VARIABLES
  text,      \* guess_candidate_name: the parameter text
  lines,     \* guess_candidate_name: the list lines (lines 29-33)
  idx,       \* position of the for loop of line 35 in lines[:20] (1-based)
  pc,        \* control position of guess_candidate_name
  result,    \* the value guess_candidate_name returned
  round,     \* harness: which application of guess_candidate_name is running
  first,     \* harness: the result of the first application
  mpc,       \* control position of main
  argv,      \* main: sys.argv
  fileExists,\* main: what file_path.exists() answers
  pdf,       \* main: what the PDF reader yields: "fail" or the pages' texts
  out,       \* main: the records written to standard output, in order
  status     \* main: the process exit status, "running" until it ends

vars == <<text, lines, idx, pc, result, round, first,
          mpc, argv, fileExists, pdf, out, status>>

mainVars  == <<mpc, argv, fileExists, pdf, out, status>>

----------------------------------------------------------------------------
(* Characters *)

UpperLetters ==
  <<"A","B","C","D","E","F","G","H","I","J","K","L","M",
    "N","O","P","Q","R","S","T","U","V","W","X","Y","Z">>

LowerLetters ==
  <<"a","b","c","d","e","f","g","h","i","j","k","l","m",
    "n","o","p","q","r","s","t","u","v","w","x","y","z">>

UpperSet == {UpperLetters[k] : k \in 1..26}
LowerSet == {LowerLetters[k] : k \in 1..26}

\* str.isalpha on one ASCII character
IsAlphaChar(c) == c \in UpperSet \/ c \in LowerSet

\* characters that str.strip() and str.split() treat as whitespace
Whitespace == {" ", "\t", "\n", "\r", "\f"}

\* characters that str.splitlines() breaks a line at
LineBoundaries == {"\n", "\r", "\f"}

\* str.lower on one character
LowerChar(c) ==
  IF c \in UpperSet
    THEN LowerLetters[CHOOSE k \in 1..26 : UpperLetters[k] = c]
    ELSE c

\* str.upper on one character
UpperChar(c) ==
  IF c \in LowerSet
    THEN UpperLetters[CHOOSE k \in 1..26 : LowerLetters[k] = c]
    ELSE c

----------------------------------------------------------------------------
(* Python string methods *)

\* s.lower()
Lower(s) == [k \in 1..Len(s) |-> LowerChar(s[k])]

\* s.upper()
Upper(s) == [k \in 1..Len(s) |-> UpperChar(s[k])]

SetMin(S) == CHOOSE m \in S : \A n \in S : m <= n
SetMax(S) == CHOOSE m \in S : \A n \in S : n <= m

\* s.strip()
Strip(s) ==
  LET keep == {k \in 1..Len(s) : s[k] \notin Whitespace}
  IN  IF keep = {} THEN <<>> ELSE SubSeq(s, SetMin(keep), SetMax(keep))

\* the positions 1..Len(s), in order
Positions(s) == [k \in 1..Len(s) |-> k]

\* position k is the last character of a line break of s; "\r\n" is one break
EndsBreak(s, k) ==
  /\ s[k] \in LineBoundaries
  /\ ~(s[k] = "\r" /\ k < Len(s) /\ s[k + 1] = "\n")

\* s.splitlines(): the text between the line breaks, without the breaks; no
\* line after a final break
SplitLines(s) ==
  LET ends  == SelectSeq(Positions(s), LAMBDA k : EndsBreak(s, k))
      n     == Len(ends)
      open  == IF n = 0 THEN Len(s) > 0 ELSE ends[n] < Len(s)
      count == IF open THEN n + 1 ELSE n
      from(i) == IF i = 1 THEN 1 ELSE ends[i - 1] + 1
      upto(i) == IF i > n THEN Len(s)
                 ELSE IF s[ends[i]] = "\n" /\ ends[i] > 1 /\ s[ends[i] - 1] = "\r"
                        /\ ends[i] - 1 >= from(i)
                   THEN ends[i] - 2
                   ELSE ends[i] - 1
  IN  [i \in 1..count |-> SubSeq(s, from(i), upto(i))]

\* s.split(): the maximal runs of characters that are not whitespace
Split(s) ==
  LET starts == SelectSeq(Positions(s), LAMBDA k :
                  s[k] \notin Whitespace /\ (k = 1 \/ s[k - 1] \in Whitespace))
      stops  == SelectSeq(Positions(s), LAMBDA k :
                  s[k] \notin Whitespace /\ (k = Len(s) \/ s[k + 1] \in Whitespace))
  IN  [i \in 1..Len(starts) |-> SubSeq(s, starts[i], stops[i])]

\* s.replace(old, new) for one-character old and new
ReplaceChar(s, old, new) == [k \in 1..Len(s) |-> IF s[k] = old THEN new ELSE s[k]]

\* s.replace(old, "") for a one-character old
Remove(s, old) == SelectSeq(s, LAMBDA c : c # old)

\* s.isalpha(): non-empty and every character alphabetic
IsAlpha(s) == s # <<>> /\ \A k \in 1..Len(s) : IsAlphaChar(s[k])

\* sub in s
Contains(s, sub) ==
  \E k \in 1..(Len(s) - Len(sub) + 1) : SubSeq(s, k, k + Len(sub) - 1) = sub

\* s.split(":", 1)[-1] for an s that contains ":"
AfterFirstColon(s) ==
  LET at == SetMin({k \in 1..Len(s) : s[k] = ":"})
  IN  SubSeq(s, at + 1, Len(s))

\* " ".join(parts)
RECURSIVE JoinSpace(_)
JoinSpace(parts) ==
  IF parts = <<>> THEN <<>>
  ELSE IF Len(parts) = 1 THEN parts[1]
  ELSE parts[1] \o <<" ">> \o JoinSpace(Tail(parts))

----------------------------------------------------------------------------
(* guess_candidate_name *)

MaxLineLen == 60
Window == 20

skip_keywords ==
  {  <<"l","o","c","a","t","i","o","n">>,
     <<"c","o","u","n","t","r","y">>,
     <<"p","h","o","n","e">>,
     <<"e","m","a","i","l">>,
     <<"s","u","m","m","a","r","y">>,
     <<"p","r","o","f","i","l","e">>,
     <<"e","x","p","e","r","i","e","n","c","e">>,
     <<"s","k","i","l","l","s">>,
     <<"t","e","c","h">>,
     <<"s","t","a","c","k">>,
     <<"l","i","n","k","e","d","i","n">>,
     <<"g","i","t","h","u","b">>,
     <<"c","o","n","t","a","c","t">> }

\* the condition of the comprehension of lines 29-33
KeepLine(line) == Strip(line) # <<>> /\ Len(Strip(line)) <= MaxLineLen

\* lines 29-33
CandidateLines(t) ==
  LET raw  == SplitLines(t)
      kept == SelectSeq(raw, KeepLine)
  IN  [k \in 1..Len(kept) |-> Strip(kept[k])]

\* a slip: lines[:21]
ScannedOneMore(ls) ==
  SubSeq(ls, 1, IF Len(ls) < Window + 1 THEN Len(ls) ELSE Window + 1)

\* lines[:20]
Scanned(ls) == SubSeq(ls, 1, IF Len(ls) < Window THEN Len(ls) ELSE Window)

\* a slip: the text after the last colon
NormalizedAfterLastColon(line) ==
  IF \E k \in 1..Len(line) : line[k] = ":"
    THEN Strip(SubSeq(line, SetMax({k \in 1..Len(line) : line[k] = ":"}) + 1,
                      Len(line)))
    ELSE line

\* line 36
Normalized(line) ==
  IF \E k \in 1..Len(line) : line[k] = ":"
    THEN Strip(AfterFirstColon(line))
    ELSE line

\* a slip: the keywords are looked for without lowering the text
HasSkipKeywordAsWritten(normalized) ==
  \E keyword \in skip_keywords : Contains(normalized, keyword)

\* lines 37-38
HasSkipKeyword(normalized) ==
  LET lower == Lower(normalized)
  IN  \E keyword \in skip_keywords : Contains(lower, keyword)

\* the conditions of lines 43 and 59
IsNameToken(token) == IsAlpha(Remove(token, "-"))

\* a slip: the tokens are not filtered
TokensUnfiltered(normalized) == Split(normalized)

\* lines 40-44
Tokens(normalized) == SelectSeq(Split(normalized), IsNameToken)

\* lines 56-60
Words(t) == SelectSeq(Split(ReplaceChar(t, "\n", " ")), IsNameToken)

\* token[:1].upper() + token[1:].lower()
Capitalize(token) ==
  Upper(SubSeq(token, 1, 1)) \o Lower(SubSeq(token, 2, Len(token)))

\* lines 47-49: both tokens of a two-token line
FormatBoth(tokens) ==
  JoinSpace([k \in 1..Len(tokens) |-> Capitalize(tokens[k])])

\* a slip: every token of the line, not the first two
FormatEveryToken(tokens) ==
  JoinSpace([k \in 1..Len(tokens) |-> Capitalize(tokens[k])])

\* lines 51-53: tokens[:2]
FormatFirstTwo(tokens) ==
  JoinSpace([k \in 1..2 |-> Capitalize(tokens[k])])

\* a slip: range(1, 3), the second and third word
FormatLaterWords(words) ==
  JoinSpace([k \in 1..2 |->
    Capitalize(words[IF Len(words) > 2 THEN k + 1 ELSE k])])

\* a slip: the two words in the other order
FormatWordsSwapped(words) ==
  JoinSpace([k \in 1..2 |-> Capitalize(words[3 - k])])

\* lines 62-64: words[i] for i in range(2)
FormatWords(words) ==
  JoinSpace([k \in 1..2 |-> Capitalize(words[k])])

\* lines 29-33: build the list of candidate lines
BuildLines ==
  /\ pc = "lines"
  /\ lines' = CandidateLines(text)
  /\ idx' = 1
  /\ pc' = "loop"
  /\ UNCHANGED <<text, result, round, first>>
  /\ UNCHANGED mainVars

InLoop == pc = "loop" /\ idx <= Len(Scanned(lines))

\* lines 35-39: the line holds a skip keyword, continue
SkipKeywordLine ==
  /\ InLoop
  /\ HasSkipKeyword(Normalized(Scanned(lines)[idx]))
  /\ idx' = idx + 1
  /\ UNCHANGED <<text, lines, pc, result, round, first>>
  /\ UNCHANGED mainVars

\* lines 35-45: fewer than two tokens, next iteration
SkipShortLine ==
  /\ InLoop
  /\ LET normalized == Normalized(Scanned(lines)[idx])
     IN  /\ ~HasSkipKeyword(normalized)
         /\ Len(Tokens(normalized)) < 2
  /\ idx' = idx + 1
  /\ UNCHANGED <<text, lines, pc, result, round, first>>
  /\ UNCHANGED mainVars

\* lines 45-50: exactly two tokens
ReturnBoth ==
  /\ InLoop
  /\ LET normalized == Normalized(Scanned(lines)[idx])
         tokens == Tokens(normalized)
     IN  /\ ~HasSkipKeyword(normalized)
         /\ Len(tokens) >= 2
         /\ Len(tokens) = 2
         /\ result' = FormatBoth(tokens)
  /\ pc' = "return_line"
  /\ UNCHANGED <<text, lines, idx, round, first>>
  /\ UNCHANGED mainVars

\* lines 45, 51-54: more than two tokens
ReturnFirstTwo ==
  /\ InLoop
  /\ LET normalized == Normalized(Scanned(lines)[idx])
         tokens == Tokens(normalized)
     IN  /\ ~HasSkipKeyword(normalized)
         /\ Len(tokens) >= 2
         /\ Len(tokens) # 2
         /\ result' = FormatFirstTwo(tokens)
  /\ pc' = "return_line"
  /\ UNCHANGED <<text, lines, idx, round, first>>
  /\ UNCHANGED mainVars

LoopDone == pc = "loop" /\ idx > Len(Scanned(lines))

\* a slip: the fallback asks for more than two words
MoreThanTwoWords(words) == Len(words) > 2

\* line 61
EnoughWords(words) == Len(words) >= 2

\* lines 56-65: the whole-document fallback
ReturnWords ==
  /\ LoopDone
  /\ LET words == Words(text)
     IN  /\ EnoughWords(words)
         /\ result' = FormatWords(words)
  /\ pc' = "return_words"
  /\ UNCHANGED <<text, lines, idx, round, first>>
  /\ UNCHANGED mainVars

\* lines 56-61, 67
ReturnEmpty ==
  /\ LoopDone
  /\ ~EnoughWords(Words(text))
  /\ result' = <<>>
  /\ pc' = "return_empty"
  /\ UNCHANGED <<text, lines, idx, round, first>>
  /\ UNCHANGED mainVars

Returned == pc \in {"return_line", "return_words", "return_empty"}

GuessNext ==
  \/ BuildLines
  \/ SkipKeywordLine
  \/ SkipShortLine
  \/ ReturnBoth
  \/ ReturnFirstTwo
  \/ ReturnWords
  \/ ReturnEmpty

----------------------------------------------------------------------------
(* Inputs *)

MaxPieces == 3

\* a token longer than a candidate line may be
LongToken == [k \in 1..(MaxLineLen + 1) |-> "X"]

\* a blank line and Window - 1 candidate lines, none of which holds a name
DigitLines ==
  [k \in 1..(2 * Window) |->
     IF k = 1 THEN " " ELSE IF k % 2 = 0 THEN "\n" ELSE "7"]

\* the pieces a text is made of: words in lower and mixed case, a line of
\* three words, a keyword, a number ending its line, a hyphen, a colon, a
\* label with its colon, a space, a newline, and the two long pieces
Pieces ==
  { <<"a","l">>,
    <<"d","E"," ","f","G"," ","h","i","\n">>,
    <<"T","e","c","h">>,
    <<"7","\n">>,
    <<"-">>,
    <<":">>,
    <<"j","o",":">>,
    <<" ">>,
    <<"\n">>,
    LongToken,
    DigitLines }

RECURSIVE Concat(_)
Concat(ps) == IF ps = <<>> THEN <<>> ELSE Head(ps) \o Concat(Tail(ps))

TextsOf(n) == {Concat(ps) : ps \in UNION {[1..m -> Pieces] : m \in 0..n}}

Texts == TextsOf(MaxPieces)

----------------------------------------------------------------------------------------------------------------------------------------
(* Applying guess_candidate_name to a text, and then to its own result *)

NoPdf == [ok |-> FALSE, pages |-> <<>>, cause |-> "none"]

Init ==
  /\ text \in Texts
  /\ lines = <<>>
  /\ idx = 1
  /\ pc = "lines"
  /\ result = <<>>
  /\ round = 1
  /\ first = <<>>
  /\ mpc = "none"
  /\ argv = <<>>
  /\ fileExists = FALSE
  /\ pdf = NoPdf
  /\ out = <<>>
  /\ status = "running"

\* call guess_candidate_name again, on the value it returned
Reapply ==
  /\ Returned
  /\ round = 1
  /\ round' = 2
  /\ first' = result
  /\ text' = result
  /\ lines' = <<>>
  /\ idx' = 1
  /\ pc' = "lines"
  /\ result' = <<>>
  /\ UNCHANGED mainVars

Next == GuessNext \/ Reapply

Spec == Init /\ [][Next]_vars

----------------------------------------------------------------------------
(* main *)

MaxPages == 2

\* page.extract_text() may answer None
None == <<"None">>

PageValues == Pieces \cup {<<>>, None, <<"j","o"," ","D","O","E">>}

\* what an exception of the PDF reader may say
Causes == {"EOF marker not found", "Stream has ended unexpectedly"}

PdfOutcomes ==
  {[ok |-> FALSE, pages |-> <<>>, cause |-> c] : c \in Causes} \cup
  {[ok |-> TRUE, pages |-> ps, cause |-> "none"] :
     ps \in UNION {[1..m -> PageValues] : m \in 0..MaxPages}}

Argvs ==
  { <<"extract_cv.py">>,
    <<"extract_cv.py", "cv.pdf">>,
    <<"extract_cv.py", "cv.pdf", "extra">> }

\* "\n".join(chunks)
RECURSIVE JoinNewline(_)
JoinNewline(chunks) ==
  IF chunks = <<>> THEN <<>>
  ELSE IF Len(chunks) = 1 THEN chunks[1]
  ELSE chunks[1] \o <<"\n">> \o JoinNewline(Tail(chunks))

\* lines 70-76
extract_text(pages) ==
  LET chunks == [k \in 1..Len(pages) |->
                   IF pages[k] = None THEN <<>> ELSE pages[k]]
  IN  Strip(JoinNewline(chunks))

ErrorRecord(message) == [error |-> message]

MainInit ==
  /\ mpc = "args"
  /\ argv \in Argvs
  /\ fileExists \in BOOLEAN
  /\ pdf \in PdfOutcomes
  /\ out = <<>>
  /\ status = "running"
  /\ text = <<>>
  /\ lines = <<>>
  /\ idx = 1
  /\ pc = "idle"
  /\ result = <<>>
  /\ round = 1
  /\ first = <<>>

\* lines 80-82
ArgumentMissing ==
  /\ mpc = "args"
  /\ Len(argv) < 2
  /\ out' = Append(out, ErrorRecord(<<"Missing file path argument.">>))
  /\ status' = 1
  /\ mpc' = "exited"
  /\ UNCHANGED <<argv, fileExists, pdf, text, lines, idx, pc, result, round, first>>

\* lines 80, 84
ArgumentGiven ==
  /\ mpc = "args"
  /\ ~(Len(argv) < 2)
  /\ mpc' = "exists"
  /\ UNCHANGED <<argv, fileExists, pdf, out, status,
                 text, lines, idx, pc, result, round, first>>

\* lines 85-87
FileAbsent ==
  /\ mpc = "exists"
  /\ ~fileExists
  /\ out' = Append(out, ErrorRecord(<<"File does not exist.">>))
  /\ status' = 1
  /\ mpc' = "exited"
  /\ UNCHANGED <<argv, fileExists, pdf, text, lines, idx, pc, result, round, first>>

\* line 85
FilePresent ==
  /\ mpc = "exists"
  /\ fileExists
  /\ mpc' = "extract"
  /\ UNCHANGED <<argv, fileExists, pdf, out, status,
                 text, lines, idx, pc, result, round, first>>

\* lines 89-93
ExtractFails ==
  /\ mpc = "extract"
  /\ ~pdf.ok
  /\ out' = Append(out, ErrorRecord(<<"Failed to read PDF: ", pdf.cause>>))
  /\ status' = 1
  /\ mpc' = "exited"
  /\ UNCHANGED <<argv, fileExists, pdf, text, lines, idx, pc, result, round, first>>

\* lines 89-90, 95-96: the text is extracted and guess_candidate_name called
ExtractSucceeds ==
  /\ mpc = "extract"
  /\ pdf.ok
  /\ text' = extract_text(pdf.pages)
  /\ pc' = "lines"
  /\ mpc' = "guess"
  /\ UNCHANGED <<argv, fileExists, pdf, out, status, lines, idx, result, round, first>>

\* a slip: "name" is set without the test of line 97
PayloadAlwaysNamed(t, candidate_name) ==
  [text |-> t, name |-> candidate_name]

\* lines 95-98
Payload(t, candidate_name) ==
  IF candidate_name # <<>>
    THEN [text |-> t, name |-> candidate_name]
    ELSE [text |-> t]

\* lines 96-100, and the normal end of the process
Emit ==
  /\ mpc = "guess"
  /\ Returned
  /\ out' = Append(out, Payload(text, result))
  /\ status' = 0
  /\ mpc' = "exited"
  /\ UNCHANGED <<argv, fileExists, pdf, text, lines, idx, pc, result, round, first>>

MainNext ==
  \/ ArgumentMissing
  \/ ArgumentGiven
  \/ FileAbsent
  \/ FilePresent
  \/ ExtractFails
  \/ ExtractSucceeds
  \/ Emit
  \/ GuessNext

MainSpec == MainInit /\ [][MainNext]_vars

----------------------------------------------------------------------------
(* The vocabulary of the specification, stated from its glossary and not   *)
(* through the operators that model the code                               *)

\* alpha token: only letters and hyphens, and at least one letter
AlphaToken(tok) ==
  /\ \A k \in 1..Len(tok) : tok[k] = "-" \/ IsAlphaChar(tok[k])
  /\ \E k \in 1..Len(tok) : IsAlphaChar(tok[k])

AlphaTokensOf(s) == SelectSeq(Split(s), AlphaToken)

\* first character uppercased, the others lowercased
Capitalized(tok) ==
  [k \in 1..Len(tok) |-> IF k = 1 THEN UpperChar(tok[k]) ELSE LowerChar(tok[k])]

\* the name made of the first two of toks
NameOf(toks) == Capitalized(toks[1]) \o <<" ">> \o Capitalized(toks[2])

HasColon(line) == \E k \in 1..Len(line) : line[k] = ":"

\* the trimmed text after the first colon, or the whole line without a colon
NormalizedText(line) ==
  IF HasColon(line)
    THEN LET at == CHOOSE k \in 1..Len(line) :
                     line[k] = ":" /\ \A j \in 1..(k - 1) : line[j] # ":"
         IN  Strip(SubSeq(line, at + 1, Len(line)))
    ELSE line

\* s holds a blocklist keyword, in any letter case, as a substring
Blocked(s) == \E keyword \in skip_keywords : Contains(Lower(s), keyword)

\* the line yields a guess in the line scan
Qualifies(line) ==
  /\ ~Blocked(NormalizedText(line))
  /\ Len(AlphaTokensOf(NormalizedText(line))) >= 2

\* candidate line: trimmed, non-empty, at most MaxLineLen characters
IsCandidate(line) ==
  /\ line # <<>>
  /\ Len(line) <= MaxLineLen
  /\ line[1] \notin Whitespace
  /\ line[Len(line)] \notin Whitespace

\* the candidate lines of t, in document order
CandidateLinesOf(t) ==
  LET raw == SplitLines(t)
  IN  SelectSeq([k \in 1..Len(raw) |-> Strip(raw[k])], IsCandidate)

\* the first Window candidate lines of t
InWindow(t) ==
  LET cl == CandidateLinesOf(t)
  IN  SubSeq(cl, 1, IF Len(cl) <= Window THEN Len(cl) ELSE Window)

\* the positions, in the window of t, of the lines that qualify
QualifyingIn(t) ==
  LET w == InWindow(t)
  IN  {k \in 1..Len(w) : Qualifies(w[k])}

\* r is two non-empty whitespace-free tokens joined by exactly one space
TwoTokens(r) ==
  \E k \in 2..(Len(r) - 1) :
    /\ r[k] = " "
    /\ \A j \in 1..Len(r) : j # k => r[j] \notin Whitespace

----------------------------------------------------------------------------
(* Claims *)

\* what is left to do of a call of guess_candidate_name
Variant ==
  IF pc = "lines" THEN Window + 3
  ELSE IF pc = "loop" THEN Window + 2 - idx
  ELSE 0

\* C1: every call of guess_candidate_name ends (each of its steps decreases
\* Variant, which stays a natural number), and the value returned is the
\* empty string or exactly two non-empty whitespace-free tokens joined by
\* exactly one space.
C1_EndsWithTwoTokensOrEmpty ==
  /\ [](Returned => (result = <<>> \/ TwoTokens(result)))
  /\ [][GuessNext => (Variant' < Variant /\ Variant' >= 0)]_vars

\* the fallback returned a name from a text with more than two alpha tokens
C1_Witness ==
  /\ pc = "return_words"
  /\ Len(AlphaTokensOf(text)) > 2
  /\ TwoTokens(result)

\* C2: each of the two tokens of a non-empty result starts with an uppercase
\* letter and has no uppercase letter after its first character.
C2_TokensCapitalized ==
  (Returned /\ result # <<>>) =>
    \A i \in 1..Len(Split(result)) :
      LET tok == Split(result)[i]
      IN  /\ tok[1] \in UpperSet
          /\ \A k \in 2..Len(tok) : tok[k] \notin UpperSet

\* C3: when some line of the window qualifies, the call returns from the
\* line scan with the capitalized first two alpha tokens of the earliest
\* qualifying line.
C3_FirstQualifyingLineWins ==
  (Returned /\ QualifyingIn(text) # {}) =>
    /\ pc = "return_line"
    /\ result = NameOf(AlphaTokensOf(NormalizedText(
                  InWindow(text)[SetMin(QualifyingIn(text))])))

\* the earliest qualifying line has a third alpha token, and a later line of
\* the window qualifies with another name
C3_Witness ==
  /\ Returned
  /\ \E a, b \in QualifyingIn(text) :
       LET w == InWindow(text)
       IN  /\ a = SetMin(QualifyingIn(text))
           /\ a < b
           /\ Len(AlphaTokensOf(NormalizedText(w[a]))) > 2
           /\ NameOf(AlphaTokensOf(NormalizedText(w[b]))) # result

\* the alpha tokens of the whole text, newlines replaced by spaces
DocumentTokens(t) == AlphaTokensOf(ReplaceChar(t, "\n", " "))

\* C4: when no line of the window qualifies and the whole text has at least
\* two alpha tokens, the call returns the capitalized first two alpha tokens
\* of the whole text, in document order.
C4_WholeDocumentFallback ==
  (Returned /\ QualifyingIn(text) = {} /\ Len(DocumentTokens(text)) >= 2) =>
    /\ pc = "return_words"
    /\ result = NameOf(DocumentTokens(text))

\* the fallback took its first token from a candidate line that the keyword
\* blocklist rejected
C4_Witness ==
  /\ pc = "return_words"
  /\ LET w == InWindow(text)
     IN  /\ Len(w) >= 1
         /\ Blocked(NormalizedText(w[1]))
         /\ Len(AlphaTokensOf(w[1])) >= 1
         /\ Capitalized(AlphaTokensOf(w[1])[1]) = Split(result)[1]

\* C5: the call returns the empty string exactly when no line of the window
\* qualifies and the whole text has fewer than two alpha tokens.
C5_EmptyIffNothingFound ==
  Returned =>
    ((result = <<>>) <=>
       (QualifyingIn(text) = {} /\ Len(DocumentTokens(text)) < 2))

\* a non-empty text without any alpha token got the empty answer
C5_Witness ==
  /\ pc = "return_empty"
  /\ text # <<>>
  /\ Split(text) # <<>>
  /\ DocumentTokens(text) = <<>>

\* C6 as stated: the line scan never returns a guess from a candidate line
\* that holds a blocklist keyword anywhere, the label before a colon included.
C6_KeywordAnywhereRejects ==
  pc = "return_line" => ~Blocked(lines[idx])

\* C6 amended: the line scan never returns a guess from a candidate line whose
\* normalized text (the text after the first colon, when there is a colon)
\* holds a blocklist keyword, in any letter case and whatever its tokens.
C6_KeywordInNormalizedRejects ==
  pc = "return_line" => ~Blocked(NormalizedText(lines[idx]))

\* the scan passed a line with two alpha tokens and a keyword in mixed case,
\* and returned from a later line
C6_Witness ==
  /\ pc = "return_line"
  /\ \E j \in 1..(idx - 1) :
       /\ Blocked(NormalizedText(lines[j]))
       /\ Lower(lines[j]) # lines[j]
       /\ Len(AlphaTokensOf(NormalizedText(lines[j]))) >= 2

\* C7: every line the scan has passed does not qualify on its normalized
\* text, and a guess taken from a line is made of the first two alpha tokens
\* of its normalized text: the trimmed text after the first colon, later
\* colons kept, or the whole line when it has no colon.
C7_ColonHandling ==
  pc \in {"loop", "return_line"} =>
    /\ \A j \in 1..(idx - 1) : ~Qualifies(lines[j])
    /\ pc = "return_line" =>
         /\ Qualifies(lines[idx])
         /\ result = NameOf(AlphaTokensOf(NormalizedText(lines[idx])))

\* the colons of a line
ColonsOf(line) == {k \in 1..Len(line) : line[k] = ":"}

\* the guess came from a line with an alpha token before its first colon and
\* with a second colon
C7_Witness ==
  /\ pc = "return_line"
  /\ Cardinality(ColonsOf(lines[idx])) >= 2
  /\ AlphaTokensOf(SubSeq(lines[idx], 1, SetMin(ColonsOf(lines[idx])) - 1)) # <<>>

\* C8: the lines scanned are the candidate lines of the text (trimmed,
\* non-empty, at most 60 characters), and the scan returns a guess only from
\* one of the first 20 of them.
C8_SearchWindow ==
  pc \in {"loop", "return_line", "return_words", "return_empty"} =>
    /\ lines = CandidateLinesOf(text)
    /\ \A k \in 1..Len(lines) : IsCandidate(lines[k])
    /\ idx <= Window + 1
    /\ pc = "return_line" => (idx <= Window /\ idx <= Len(lines))

\* the 21st candidate line would qualify, a line that is no candidate came
\* before it, and the answer came from the fallback
C8_Witness ==
  /\ pc \in {"return_words", "return_empty"}
  /\ Len(lines) > Window
  /\ Qualifies(lines[Window + 1])
  /\ Len(SplitLines(text)) > Len(lines)

\* the message of the check of main that fails first, <<>> when none fails
FirstFailure ==
  IF Len(argv) < 2 THEN <<"Missing file path argument.">>
  ELSE IF ~fileExists THEN <<"File does not exist.">>
  ELSE IF ~pdf.ok THEN <<"Failed to read PDF: ", pdf.cause>>
  ELSE <<>>

\* C9: a run of main that has ended has emitted exactly one record; a run
\* that has not ended has emitted none.  On a failure the record is the error
\* record of the first failing check, the status is not zero and the name
\* guess did not run; otherwise the status is zero, the record has "text",
\* and it has "name" exactly when the guess is not empty.
C9_OneRecordPerRun ==
  /\ mpc # "exited" => (out = <<>> /\ status = "running")
  /\ mpc = "exited" =>
       /\ Len(out) = 1
       /\ IF FirstFailure # <<>>
            THEN /\ out[1] = [error |-> FirstFailure]
                 /\ status # 0
                 /\ pc = "idle"
            ELSE /\ status = 0
                 /\ Returned
                 /\ "text" \in DOMAIN out[1]
                 /\ out[1].text = text
                 /\ DOMAIN out[1] \subseteq {"text", "name"}
                 /\ ("name" \in DOMAIN out[1]) <=> (result # <<>>)
                 /\ ("name" \in DOMAIN out[1]) => out[1].name = result

\* a run over a readable PDF with text in it for which there is no guess
C9_Witness ==
  /\ mpc = "exited"
  /\ status = 0
  /\ text # <<>>
  /\ DOMAIN out[1] = {"text"}

\* C10: guess_candidate_name applied to its own result returns that result.
C10_FixedPoint ==
  (Returned /\ round = 2) => result = first

\* the first result came from the fallback, holds a keyword and is longer
\* than a candidate line
C10_Witness ==
  /\ Returned
  /\ round = 2
  /\ Blocked(first)
  /\ Len(first) > MaxLineLen

====
